---- MODULE Spec2Model ----
(***************************************************************************)
(* Model of the Neurosity local-mode client (src/src/neurosityClient.ts):  *)
(* the two republished BehaviorSubjects, connectBluetooth() with its cloud *)
(* login helper, disconnectAll(), and the App component's effect that      *)
(* subscribes to the republished state.  The vendor SDK is the             *)
(* environment: its calls settle with any outcome and its streams emit any *)
(* value.                                                                  *)
(***************************************************************************)
EXTENDS Integers, Sequences, FiniteSets

\* ------------------------------------------------------------------ bounds
\* The log list of the App is unbounded in the code; a step started by the
\* user or by the device that would make it longer than MaxLogs is not
\* taken (the continuation of a pending call always is).
MaxLogs == 7
\* Longest device list the SDK hands to the chooser of selectDevice().
MaxDevices == 2
\* Most calls of connectBluetooth(), and most of disconnectAll(), in flight
\* together.
MaxCalls == 2
\* Most consecutive streaming-state emissions with connected over Bluetooth
\* that the App observes.
MaxRun == 2
\* Date.now() when the program starts, and the latest instant explored.
Epoch == 10000
MaxNow == 25100

\* ------------------------------------------------------- values of the SDK
WIFI == "wifi"
BLUETOOTH == "bluetooth"
STREAMING_TYPE == {WIFI, BLUETOOTH}
BLUETOOTH_WITH_WIFI_FALLBACK == "bluetooth-with-wifi-fallback"
STREAMING_MODE == {BLUETOOTH_WITH_WIFI_FALLBACK}
BT_DISCONNECTED == "disconnected"
BT_CONNECTING == "connecting"
BT_CONNECTED == "connected"
BLUETOOTH_CONNECTION == {BT_DISCONNECTED, BT_CONNECTING, BT_CONNECTED}

\* type StreamingState
StreamingState ==
  [connected : BOOLEAN, activeMode : STREAMING_TYPE, streamingMode : STREAMING_MODE]

\* Errors an SDK call can reject with.
Errors == {"E1", "E2"}
\* Values the auth-state stream emits: a user object or null.
NullUser == "null"
AuthUsers == {NullUser, "user"}
\* Values of the env settings; Undefined is an unset variable.
Undefined == "<undefined>"
EmailValues == {Undefined, "", "me@x.io"}
PasswordValues == {Undefined, "pw"}
DeviceIdValues == {Undefined, "", "d2", "d9"}
\* Devices the cloud account can hold.
Devices ==
  { [deviceId |-> "d1", deviceNickname |-> "A"],
    [deviceId |-> "d2", deviceNickname |-> "B"] }
DeviceLists == UNION { [1..n -> Devices] : n \in 0..MaxDevices }
\* Band-power readings.
PowerData == {"bands"}
\* DeviceInfo snapshots.
DeviceInfos == {"info"}
\* The throttle of the status log, in milliseconds.
StatusLogInterval == 5000
\* How far the clock moves between two events, in milliseconds.
TickSteps == {2500, 2501}

\* An optional value is <<>> (absent) or <<v>>.
None == <<>>
Some(v) == <<v>>

\* Calls of one exported function that are in flight together are told apart
\* by a record number; nothing in the code keeps a second call from
\* starting while a first one is pending.
Calls == 1..MaxCalls

\* The records a new call can use: never used, or of a call that is over.
Free(pc) == { k \in Calls : pc[k] \in {"idle", "settled"} }

\* The record a new call takes.
FirstFree(pc) == CHOOSE k \in Free(pc) : \A j \in Free(pc) : k <= j

VARIABLES
  \* --- SDK side
  sdkStreamingLast,    \* last value emitted by neurosity.streamingState()
  sdkBtLast,           \* last value emitted by neurosity.bluetooth.connection()
  \* --- module state of neurosityClient.ts
  streamingState,      \* current value of streamingState$
  bluetoothConnection, \* current value of bluetoothConnection$
  email, password, deviceId,  \* import.meta.env.VITE_NEUROSITY_*
  \* --- the connectBluetooth() calls, each variable indexed by the call's record
  connPc,              \* "idle"; awaiting: "btConnect", "authRead", "login",
                       \* "selectDevice"; awaited promise settled, continuation
                       \* not yet run: "btSettled", "authResolved", "loginSettled",
                       \* "selectSettled"; "returning" (helper returned), "returned"
                       \* (promise settled, handleConnect not yet continued), "settled"
  connCaller,          \* "api" (direct call) or "ui" (handleConnect)
  connCalls,           \* SDK operations invoked by the call, in order
  connBt,              \* outcome of bluetooth.connect(): "pending", "ok" or the error
  connResult,          \* "none", "ok" or the error the promise rejected with
  alreadyLoggedIn,     \* None, or Some(boolean) once the auth read resolved
  loginOutcome,        \* "none", "ok" or the error
  selectOutcome,       \* "none", "ok" or the error
  chooserArg,          \* None, or Some(device list) the chooser was called with
  chooserRet,          \* None, or Some(optional device) the chooser returned
  authSub,             \* "none", "active", "unsubscribed", "terminated"
  authRuns,            \* runs of the auth-state callback in this call
  stateSub,            \* "none", "active", "unsubscribed"
  stateRuns,           \* runs of the one-shot streaming-state callback
  \* --- the disconnectAll() calls, each variable indexed by the call's record
  discPc,              \* "idle", "btDisconnect", "btDisconnectSettled", "sessionClose",
                       \* "sessionCloseSettled", "returned", "settled"
  discCaller,
  discCalls,
  discBt,              \* outcome of bluetooth.disconnect()
  discClose,           \* outcome of neurosity.disconnect()
  discResult,
  \* --- App component
  uiPhase,             \* "initial", "mounted", "unmounted"
  uiSubs,              \* subscriptions of the effect that are active
  btState, activeMode, connected, deviceInfo, powerByBand, logs,
  infoFetchedRef, metricsSubscribedRef,
  prevMode,
  sub4,                \* "null", "open", "unsubscribed"
  openMetrics,         \* open subscriptions to brainwaves('powerByBand')
  infoFetch,           \* getInfo(): "none", "pending", "settled"
  infoFetches,         \* number of getInfo() calls issued
  btRun,               \* emissions observed in a row by sub2 with connected over Bluetooth
  status,              \* the status state of the App
  lastStatusTime,      \* let lastStatusTime of the effect
  now                  \* Date.now()

sdkVars == <<sdkStreamingLast, sdkBtLast>>
clientVars == <<streamingState, bluetoothConnection>>
envVars == <<email, password, deviceId>>
connVars == <<connPc, connCaller, connCalls, connBt, connResult, alreadyLoggedIn,
              loginOutcome, selectOutcome, chooserArg, chooserRet,
              authSub, authRuns, stateSub, stateRuns>>
discVars == <<discPc, discCaller, discCalls, discBt, discClose, discResult>>
uiVars == <<uiPhase, uiSubs, btState, activeMode, connected, deviceInfo, powerByBand,
            logs, infoFetchedRef, metricsSubscribedRef, prevMode, sub4, openMetrics,
            infoFetch, infoFetches, btRun, status, lastStatusTime, now>>
vars == <<sdkVars, clientVars, envVars, connVars, discVars, uiVars>>

\* ------------------------------------------------------------ republisher
\* new BehaviorSubject<StreamingState>({...})
InitialStreamingState ==
  [connected |-> FALSE, activeMode |-> WIFI, streamingMode |-> BLUETOOTH_WITH_WIFI_FALLBACK]

\* new BehaviorSubject<BLUETOOTH_CONNECTION>(BLUETOOTH_CONNECTION.DISCONNECTED)
InitialBluetoothConnection == BT_DISCONNECTED

\* A mirror that drops an emission whose connected flag did not change.
MirrorStreaming_Stale(cur, s) == IF s.connected = cur.connected THEN cur ELSE s

\* (s) => streamingState$.next(s): the new current value of the container.
MirrorStreaming(cur, s) == s

\* (c) => bluetoothConnection$.next(c)
MirrorBluetooth(cur, c) == c

\* ------------------------------------------------------------ JS helpers
\* !x for a string | undefined
Falsy(x) == x \in {Undefined, ""}

\* !!user
ToBoolean(user) == user # NullUser

\* devices[0]: undefined on an empty list
First(devices) == IF Len(devices) > 0 THEN Some(devices[1]) ELSE None

\* devices.find((d) => d.deviceId === id)
Find(devices, id) ==
  LET hits == { i \in 1..Len(devices) : devices[i].deviceId = id }
  IN IF hits = {} THEN None
     ELSE Some(devices[CHOOSE i \in hits : \A j \in hits : i <= j])

\* a ?? b
Coalesce(a, b) == IF a # None THEN a ELSE b

\* const entry = { timestamp: new Date(), message, type }
LogEntry(message, type) == [timestamp |-> now, message |-> message, type |-> type]

\* ----------------------------------------------------- cloud login helper
\* A credentials test that skips only when both are missing.
CredentialsMissing_Both(e, p) == Falsy(e) /\ Falsy(p)

\* if (!email || !password)
CredentialsMissing(e, p) == Falsy(e) \/ Falsy(p)

\* A chooser that ignores the target identifier.
Chooser_FirstOnly(id, devices) == First(devices)

\* The chooser handed to neurosity.selectDevice(): by id with fallback to
\* the first device when deviceId is set, the first device otherwise.
Chooser(id, devices) ==
  IF ~Falsy(id) THEN Coalesce(Find(devices, id), First(devices))
  ELSE First(devices)

\* A login test that logs in when already authenticated.
NeedsLogin_Inverted(loggedIn) == loggedIn

\* if (alreadyLoggedIn) {...} else { login }
NeedsLogin(loggedIn) == ~loggedIn

\* A catch block that wraps the error in a new one.
Rethrown_Wrapped(error) == "E0"

\* catch (error) { console.error(...); throw error; }
Rethrown(error) == error

\* -------------------------------------------------------- App: callbacks
NULL == "null"

\* Values of the device-status stream: null or the state of a DeviceStatus.
Statuses == {NULL, "online", "offline"}

\* addLog calls of the sub1 callback
Sub1Logs(state) ==
  << LogEntry("Bluetooth connection state: " \o state,
              IF state = BT_CONNECTED THEN "success" ELSE "info") >>

\* A callback that logs the transport on every emission.
Sub2Logs_Always(s) ==
  << LogEntry(IF s.activeMode = BLUETOOTH THEN "Transport changed: Bluetooth"
                                          ELSE "Transport changed: Wi-Fi",
              IF s.activeMode = BLUETOOTH THEN "success" ELSE "warn") >>

\* addLog calls of the sub2 callback: one line when the transport changed
Sub2Logs(s) ==
  IF prevMode # s.activeMode
  THEN << LogEntry(IF s.activeMode = BLUETOOTH THEN "Transport changed: Bluetooth"
                                               ELSE "Transport changed: Wi-Fi",
                   IF s.activeMode = BLUETOOTH THEN "success" ELSE "warn") >>
  ELSE << >>

\* A callback that forgets to remember the transport it logged.
NextPrevMode_Stuck(s) == prevMode

\* prevMode after the sub2 callback: set to s.activeMode when it differs.
NextPrevMode(s) == IF prevMode # s.activeMode THEN s.activeMode ELSE prevMode

\* A guard without the once-only flag.
ShouldFetchInfo_Unguarded(s) == s.connected /\ s.activeMode = BLUETOOTH

\* the guard of the one-shot neurosity.bluetooth.getInfo() in sub2
ShouldFetchInfo(s) == s.connected /\ s.activeMode = BLUETOOTH /\ ~infoFetchedRef

\* streamingState$.subscribe((s) => {...}) of sub2
Sub2Callback(s) ==
  /\ activeMode' = s.activeMode
  /\ connected' = s.connected
  /\ prevMode' = NextPrevMode(s)
  /\ btRun' = IF s.connected /\ s.activeMode = BLUETOOTH THEN btRun + 1 ELSE 0
  /\ IF ShouldFetchInfo(s)
     THEN /\ infoFetchedRef' = TRUE
          /\ infoFetch' = "pending"
          /\ infoFetches' = infoFetches + 1
     ELSE UNCHANGED <<infoFetchedRef, infoFetch, infoFetches>>

\* A transport test that looks at the connected flag instead.
IsBtActive_Connected(s) == s.connected

\* const isBtActive = s.activeMode === STREAMING_TYPE.BLUETOOTH
IsBtActive(s) == s.activeMode = BLUETOOTH

\* addLog calls of manageMetrics
ManageMetricsLogs(useBt) ==
  IF useBt /\ ~metricsSubscribedRef
  THEN << LogEntry("Subscribed to powerByBand (Bluetooth)", "success") >>
  ELSE << >>

\* A manageMetrics that unsubscribes but keeps the last reading.
ManageMetrics_KeepReading(useBt) ==
  IF ~useBt
  THEN /\ sub4' = NULL
       /\ openMetrics' = IF sub4 = "open" THEN openMetrics - 1 ELSE openMetrics
       /\ metricsSubscribedRef' = FALSE
       /\ UNCHANGED powerByBand
  ELSE IF metricsSubscribedRef
       THEN UNCHANGED <<sub4, openMetrics, metricsSubscribedRef, powerByBand>>
       ELSE /\ sub4' = "open"
            /\ openMetrics' = openMetrics + 1
            /\ metricsSubscribedRef' = TRUE
            /\ UNCHANGED powerByBand

\* A manageMetrics without the already-subscribed check.
ManageMetrics_Resubscribe(useBt) ==
  IF ~useBt
  THEN /\ sub4' = NULL
       /\ openMetrics' = IF sub4 = "open" THEN openMetrics - 1 ELSE openMetrics
       /\ metricsSubscribedRef' = FALSE
       /\ powerByBand' = NULL
  ELSE /\ sub4' = "open"
       /\ openMetrics' = openMetrics + 1
       /\ metricsSubscribedRef' = TRUE
       /\ UNCHANGED powerByBand

\* manageMetrics(useBt)
ManageMetrics(useBt) ==
  IF ~useBt
  THEN /\ sub4' = NULL
       /\ openMetrics' = IF sub4 = "open" THEN openMetrics - 1 ELSE openMetrics
       /\ metricsSubscribedRef' = FALSE
       /\ powerByBand' = NULL
  ELSE IF metricsSubscribedRef
       THEN UNCHANGED <<sub4, openMetrics, metricsSubscribedRef, powerByBand>>
       ELSE /\ sub4' = "open"
            /\ openMetrics' = openMetrics + 1
            /\ metricsSubscribedRef' = TRUE
            /\ UNCHANGED powerByBand

\* streamingState$.subscribe((s) => manageMetrics(isBtActive)) of sub5
Sub5Callback(s) == ManageMetrics(IsBtActive(s))

\* streamingState$.next(s) as seen by the App: sub2 then sub5 run, in
\* subscription order, when they are among the active subscriptions subs;
\* pre is the log so far.
StreamingObserved(s, pre, subs) ==
  /\ IF "sub2" \in subs
     THEN Sub2Callback(s)
     ELSE UNCHANGED <<activeMode, connected, prevMode, infoFetchedRef, infoFetch,
                      infoFetches, btRun>>
  /\ IF "sub5" \in subs
     THEN Sub5Callback(s)
     ELSE UNCHANGED <<sub4, openMetrics, metricsSubscribedRef, powerByBand>>
  /\ logs' = pre \o (IF "sub2" \in subs THEN Sub2Logs(s) ELSE << >>)
                 \o (IF "sub5" \in subs THEN ManageMetricsLogs(IsBtActive(s))
                                          ELSE << >>)

\* Room left in the log for a step started by the user or the device.
LogRoom == Len(logs') <= MaxLogs

\* The run of observed connected-over-Bluetooth emissions stays in bounds.
RunRoom == btRun' <= MaxRun

\* ------------------------------------------------------------------ Init
Init ==
  /\ sdkStreamingLast = None
  /\ sdkBtLast = None
  /\ streamingState = InitialStreamingState
  /\ bluetoothConnection = InitialBluetoothConnection
  /\ email \in EmailValues
  /\ password \in PasswordValues
  /\ deviceId \in DeviceIdValues
  /\ connPc = [k \in Calls |-> "idle"]
  /\ connCaller = [k \in Calls |-> "none"]
  /\ connCalls = [k \in Calls |-> << >>]
  /\ connBt = [k \in Calls |-> "none"]
  /\ connResult = [k \in Calls |-> "none"]
  /\ alreadyLoggedIn = [k \in Calls |-> None]
  /\ loginOutcome = [k \in Calls |-> "none"]
  /\ selectOutcome = [k \in Calls |-> "none"]
  /\ chooserArg = [k \in Calls |-> None]
  /\ chooserRet = [k \in Calls |-> None]
  /\ authSub = [k \in Calls |-> "none"]
  /\ authRuns = [k \in Calls |-> 0]
  /\ stateSub = [k \in Calls |-> "none"]
  /\ stateRuns = [k \in Calls |-> 0]
  /\ discPc = [k \in Calls |-> "idle"]
  /\ discCaller = [k \in Calls |-> "none"]
  /\ discCalls = [k \in Calls |-> << >>]
  /\ discBt = [k \in Calls |-> "none"]
  /\ discClose = [k \in Calls |-> "none"]
  /\ discResult = [k \in Calls |-> "none"]
  /\ uiPhase = "initial" /\ uiSubs = {}
  /\ btState = BT_DISCONNECTED /\ activeMode = WIFI /\ connected = FALSE
  /\ deviceInfo = NULL /\ powerByBand = NULL /\ logs = << >>
  /\ infoFetchedRef = FALSE /\ metricsSubscribedRef = FALSE
  /\ prevMode = WIFI /\ sub4 = NULL /\ openMetrics = 0
  /\ infoFetch = "none" /\ infoFetches = 0
  /\ btRun = 0
  /\ status = NULL /\ lastStatusTime = 0 /\ now = Epoch

\* ------------------------------------------------- republisher: emissions
\* neurosity.streamingState() emits s: the mirror writes the container, the
\* container notifies the App, and the one-shot logger of connectBluetooth
\* (if still subscribed) logs and unsubscribes.
EmitStreamingState(s) ==
  /\ sdkStreamingLast' = Some(s)
  /\ streamingState' = MirrorStreaming(streamingState, s)
  /\ StreamingObserved(streamingState', logs, uiSubs)
  /\ LogRoom
  /\ RunRoom
  /\ stateSub' = [k \in Calls |-> IF stateSub[k] = "active" THEN "unsubscribed"
                                                            ELSE stateSub[k]]
  /\ stateRuns' = [k \in Calls |-> IF stateSub[k] = "active" THEN stateRuns[k] + 1
                                                             ELSE stateRuns[k]]
  /\ UNCHANGED <<sdkBtLast, bluetoothConnection, envVars, discVars>>
  /\ UNCHANGED <<connPc, connCaller, connCalls, connBt, connResult, alreadyLoggedIn,
                 loginOutcome, selectOutcome, chooserArg, chooserRet, authSub, authRuns>>
  /\ UNCHANGED <<uiPhase, uiSubs, btState, deviceInfo, status, lastStatusTime, now>>

\* neurosity.bluetooth.connection() emits c: mirror, then sub1 of the App.
EmitBluetoothConnection(c) ==
  /\ sdkBtLast' = Some(c)
  /\ bluetoothConnection' = MirrorBluetooth(bluetoothConnection, c)
  /\ IF "sub1" \in uiSubs
     THEN /\ btState' = bluetoothConnection'
          /\ logs' = logs \o Sub1Logs(bluetoothConnection')
     ELSE UNCHANGED <<btState, logs>>
  /\ LogRoom
  /\ UNCHANGED <<sdkStreamingLast, streamingState, envVars, connVars, discVars>>
  /\ UNCHANGED <<uiPhase, uiSubs, activeMode, connected, deviceInfo, powerByBand,
                 infoFetchedRef, metricsSubscribedRef, prevMode, sub4, openMetrics, infoFetch,
                 infoFetches, btRun, status, lastStatusTime, now>>

\* ------------------------------------------------------ connectBluetooth
\* All of the App's state but the log.
uiVarsButLogs ==
  <<uiPhase, uiSubs, btState, activeMode, connected, deviceInfo, powerByBand,
    infoFetchedRef, metricsSubscribedRef, prevMode, sub4, openMetrics, infoFetch,
    infoFetches, btRun, status, lastStatusTime, now>>

\* The App's connect button: disabled={connected && isBluetoothActive}
ConnectEnabled == ~(connected /\ activeMode = BLUETOOTH)

\* A caller of the exported functions: the App's handlers while it is
\* mounted, another consumer of the module otherwise.
CallerAllowed(caller) ==
  IF caller = "ui" THEN uiPhase = "mounted" ELSE uiPhase # "mounted"

\* connectBluetooth() up to its first await (bluetooth.connect()); by
\* handleConnect ("ui", after its addLog) or by a direct call ("api").
ConnectCall(k, caller) ==
  /\ Free(connPc) # {}
  /\ k = FirstFree(connPc)
  /\ CallerAllowed(caller)
  /\ caller = "ui" => ConnectEnabled
  /\ logs' = IF caller = "ui"
             THEN Append(logs, LogEntry("Initiating Bluetooth connection...", "info"))
             ELSE logs
  /\ LogRoom
  /\ connPc' = [connPc EXCEPT ![k] = "btConnect"]
  /\ connCaller' = [connCaller EXCEPT ![k] = caller]
  /\ connCalls' = [connCalls EXCEPT ![k] = << "bluetooth.connect" >>]
  /\ connBt' = [connBt EXCEPT ![k] = "pending"]
  /\ connResult' = [connResult EXCEPT ![k] = "none"]
  /\ alreadyLoggedIn' = [alreadyLoggedIn EXCEPT ![k] = None]
  /\ loginOutcome' = [loginOutcome EXCEPT ![k] = "none"]
  /\ selectOutcome' = [selectOutcome EXCEPT ![k] = "none"]
  /\ chooserArg' = [chooserArg EXCEPT ![k] = None]
  /\ chooserRet' = [chooserRet EXCEPT ![k] = None]
  /\ authSub' = [authSub EXCEPT ![k] = "none"]
  /\ authRuns' = [authRuns EXCEPT ![k] = 0]
  /\ stateSub' = [stateSub EXCEPT ![k] = "none"]
  /\ stateRuns' = [stateRuns EXCEPT ![k] = 0]
  /\ UNCHANGED <<sdkVars, clientVars, envVars, discVars, uiVarsButLogs>>

\* The promise of call k of connectBluetooth() settles with result; the
\* code after `await connectBluetooth()` in handleConnect runs in a later
\* job.
ConnectBluetoothSettles(k, result) ==
  /\ connResult' = [connResult EXCEPT ![k] = result]
  /\ connPc' = [connPc EXCEPT ![k] = IF connCaller[k] = "ui" THEN "returned"
                                                          ELSE "settled"]

\* neurosity.selectDevice(chooser) is called and awaited.
CallSelectDevice(k) ==
  /\ connCalls' = [connCalls EXCEPT ![k] = Append(@, "selectDevice")]
  /\ connPc' = [connPc EXCEPT ![k] = "selectDevice"]

\* The promise of bluetooth.connect() resolves; the code after the await
\* runs in a later job.
BtConnectResolve(k) ==
  /\ connPc[k] = "btConnect"
  /\ connBt' = [connBt EXCEPT ![k] = "ok"]
  /\ connPc' = [connPc EXCEPT ![k] = "btSettled"]
  /\ UNCHANGED <<connCaller, connCalls, connResult, alreadyLoggedIn, loginOutcome,
                 selectOutcome, chooserArg, chooserRet, authSub, authRuns, stateSub,
                 stateRuns>>
  /\ UNCHANGED <<sdkVars, clientVars, envVars, discVars, uiVars>>

\* The promise of bluetooth.connect() rejects; the catch block runs in a
\* later job.
BtConnectReject(k, error) ==
  /\ connPc[k] = "btConnect"
  /\ connBt' = [connBt EXCEPT ![k] = error]
  /\ connPc' = [connPc EXCEPT ![k] = "btSettled"]
  /\ UNCHANGED <<connCaller, connCalls, connResult, alreadyLoggedIn, loginOutcome,
                 selectOutcome, chooserArg, chooserRet, authSub, authRuns, stateSub,
                 stateRuns>>
  /\ UNCHANGED <<sdkVars, clientVars, envVars, discVars, uiVars>>

\* The code after `await neurosity.bluetooth.connect()`: the one-shot
\* streaming-state logger is subscribed (syncState: the source delivers
\* during subscribe, and the callback then throws on its own uninitialised
\* handle, which RxJS reports out of band), then
\* tryCloudLoginAndSelectDevice() runs to its first await, or returns at
\* once when the credentials are missing.
ConnectContinues(k, syncState, syncAuth) ==
  /\ connPc[k] = "btSettled"
  /\ connBt[k] = "ok"
  /\ syncState => sdkStreamingLast # None
  /\ stateSub' = [stateSub EXCEPT ![k] = "active"]
  /\ stateRuns' = [stateRuns EXCEPT ![k] = IF syncState THEN 1 ELSE 0]
  /\ IF CredentialsMissing(email, password)
     THEN /\ ~syncAuth
          /\ connCalls' = [connCalls EXCEPT ![k] = Append(@, "streamingState.subscribe")]
          /\ connPc' = [connPc EXCEPT ![k] = "returning"]
          /\ UNCHANGED <<authSub, authRuns>>
     ELSE /\ connCalls' = [connCalls EXCEPT ![k] = @ \o << "streamingState.subscribe",
                                                          "onAuthStateChanged.subscribe" >>]
          /\ connPc' = [connPc EXCEPT ![k] = "authRead"]
          /\ authSub' = [authSub EXCEPT ![k] = "active"]
          /\ authRuns' = [authRuns EXCEPT ![k] = IF syncAuth THEN 1 ELSE 0]
  /\ UNCHANGED <<connCaller, connBt, connResult, alreadyLoggedIn, loginOutcome,
                 selectOutcome, chooserArg, chooserRet>>
  /\ UNCHANGED <<sdkVars, clientVars, envVars, discVars, uiVars>>

\* The catch block of connectBluetooth() after bluetooth.connect() rejected:
\* it logs to the console and rethrows, which rejects the call.
ConnectCatches(k) ==
  /\ connPc[k] = "btSettled"
  /\ connBt[k] \in Errors
  /\ ConnectBluetoothSettles(k, Rethrown(connBt[k]))
  /\ UNCHANGED <<connCaller, connCalls, connBt, alreadyLoggedIn, loginOutcome,
                 selectOutcome, chooserArg, chooserRet, authSub, authRuns, stateSub,
                 stateRuns>>
  /\ UNCHANGED <<sdkVars, clientVars, envVars, discVars, uiVars>>

\* A catch block around selectDevice() that lets the error escape.
SelectDeviceCaught_Rethrow(outcome) == outcome

\* try { await neurosity.selectDevice(...) } catch (err) { console.warn(...) }:
\* what the helper, and with it connectBluetooth(), completes with.
SelectDeviceCaught(outcome) == "ok"

\* What tryCloudLoginAndSelectDevice() completed with: it returns at once
\* without credentials, else it ends with its try/catch around
\* selectDevice().
HelperResult(k) ==
  IF selectOutcome[k] = "none" THEN "ok" ELSE SelectDeviceCaught(selectOutcome[k])

\* The code after `await tryCloudLoginAndSelectDevice()`: connectBluetooth()
\* returns; an error out of the helper would go through the catch block.
ConnectReturns(k) ==
  /\ connPc[k] = "returning"
  /\ ConnectBluetoothSettles(k, IF HelperResult(k) = "ok" THEN "ok"
                                ELSE Rethrown(HelperResult(k)))
  /\ UNCHANGED <<connCaller, connCalls, connBt, alreadyLoggedIn, loginOutcome,
                 selectOutcome, chooserArg, chooserRet, authSub, authRuns, stateSub,
                 stateRuns>>
  /\ UNCHANGED <<sdkVars, clientVars, envVars, discVars, uiVars>>

\* onAuthStateChanged() emits after the subscribe call returned: the
\* callback unsubscribes and resolves the promise with !!user; the code
\* after the await runs in a later job.
AuthStateEmit(k, user) ==
  /\ connPc[k] = "authRead"
  /\ authSub[k] = "active"
  /\ authSub' = [authSub EXCEPT ![k] = "unsubscribed"]
  /\ authRuns' = [authRuns EXCEPT ![k] = @ + 1]
  /\ alreadyLoggedIn' = [alreadyLoggedIn EXCEPT ![k] = Some(ToBoolean(user))]
  /\ connPc' = [connPc EXCEPT ![k] = "authResolved"]
  /\ UNCHANGED <<connCaller, connCalls, connBt, connResult, loginOutcome, selectOutcome,
                 chooserArg, chooserRet, stateSub, stateRuns>>
  /\ UNCHANGED <<sdkVars, clientVars, envVars, discVars, uiVars>>

\* onAuthStateChanged() errors or completes before the callback resolved
\* the promise: the subscription has no error or complete handler.
AuthSourceTerminates(k) ==
  /\ connPc[k] = "authRead"
  /\ authSub[k] = "active"
  /\ authSub' = [authSub EXCEPT ![k] = "terminated"]
  /\ UNCHANGED <<connPc, connCaller, connCalls, connBt, connResult, alreadyLoggedIn,
                 loginOutcome, selectOutcome, chooserArg, chooserRet, authRuns,
                 stateSub, stateRuns>>
  /\ UNCHANGED <<sdkVars, clientVars, envVars, discVars, uiVars>>

\* The code after the auth-state read: login() when not logged in, else
\* selectDevice().
AfterAuthRead(k) ==
  /\ connPc[k] = "authResolved"
  /\ IF NeedsLogin(alreadyLoggedIn[k][1])
     THEN /\ connCalls' = [connCalls EXCEPT ![k] = Append(@, "login")]
          /\ connPc' = [connPc EXCEPT ![k] = "login"]
     ELSE CallSelectDevice(k)
  /\ UNCHANGED <<connCaller, connBt, connResult, alreadyLoggedIn, loginOutcome,
                 selectOutcome, chooserArg, chooserRet, authSub, authRuns, stateSub,
                 stateRuns>>
  /\ UNCHANGED <<sdkVars, clientVars, envVars, discVars, uiVars>>

\* The promise of neurosity.login() settles with "ok" or an error.
LoginSettles(k, outcome) ==
  /\ connPc[k] = "login"
  /\ loginOutcome' = [loginOutcome EXCEPT ![k] = outcome]
  /\ connPc' = [connPc EXCEPT ![k] = "loginSettled"]
  /\ UNCHANGED <<connCaller, connCalls, connBt, connResult, alreadyLoggedIn,
                 selectOutcome, chooserArg, chooserRet, authSub, authRuns, stateSub,
                 stateRuns>>
  /\ UNCHANGED <<sdkVars, clientVars, envVars, discVars, uiVars>>

\* The code after `await neurosity.login()`, or its catch block, which only
\* warns: either way selectDevice() is called next.
AfterLogin(k) ==
  /\ connPc[k] = "loginSettled"
  /\ CallSelectDevice(k)
  /\ UNCHANGED <<connCaller, connBt, connResult, alreadyLoggedIn, loginOutcome,
                 selectOutcome, chooserArg, chooserRet, authSub, authRuns, stateSub,
                 stateRuns>>
  /\ UNCHANGED <<sdkVars, clientVars, envVars, discVars, uiVars>>

\* The SDK calls the chooser passed to selectDevice() with the device list.
ChooserInvoked(k, devices) ==
  /\ connPc[k] = "selectDevice"
  /\ chooserArg[k] = None
  /\ chooserArg' = [chooserArg EXCEPT ![k] = Some(devices)]
  /\ chooserRet' = [chooserRet EXCEPT ![k] = Some(Chooser(deviceId, devices))]
  /\ UNCHANGED <<connPc, connCaller, connCalls, connBt, connResult, alreadyLoggedIn,
                 loginOutcome, selectOutcome, authSub, authRuns, stateSub, stateRuns>>
  /\ UNCHANGED <<sdkVars, clientVars, envVars, discVars, uiVars>>

\* The promise of neurosity.selectDevice() settles: it resolves once the
\* chooser returned a device, it can reject at any point.
SelectDeviceSettles(k, outcome) ==
  /\ connPc[k] = "selectDevice"
  /\ outcome = "ok" => (chooserRet[k] # None /\ chooserRet[k][1] # None)
  /\ selectOutcome' = [selectOutcome EXCEPT ![k] = outcome]
  /\ connPc' = [connPc EXCEPT ![k] = "selectSettled"]
  /\ UNCHANGED <<connCaller, connCalls, connBt, connResult, alreadyLoggedIn,
                 loginOutcome, chooserArg, chooserRet, authSub, authRuns, stateSub,
                 stateRuns>>
  /\ UNCHANGED <<sdkVars, clientVars, envVars, discVars, uiVars>>

\* The code after `await neurosity.selectDevice()`, or its catch block,
\* which only warns; the helper returns, and the code of connectBluetooth()
\* that awaits it runs in a later job.
AfterSelectDevice(k) ==
  /\ connPc[k] = "selectSettled"
  /\ connPc' = [connPc EXCEPT ![k] = "returning"]
  /\ UNCHANGED <<connCaller, connCalls, connBt, connResult, alreadyLoggedIn, loginOutcome,
                 selectOutcome, chooserArg, chooserRet, authSub, authRuns, stateSub,
                 stateRuns>>
  /\ UNCHANGED <<sdkVars, clientVars, envVars, discVars, uiVars>>

\* handleConnect after `await connectBluetooth()`: nothing more on success,
\* the catch block logs a rejection.
HandleConnectContinues(k) ==
  /\ connPc[k] = "returned"
  /\ connPc' = [connPc EXCEPT ![k] = "settled"]
  /\ logs' = IF connResult[k] # "ok"
             THEN Append(logs, LogEntry("Connection failed: " \o connResult[k], "error"))
             ELSE logs
  /\ UNCHANGED <<connCaller, connCalls, connBt, connResult, alreadyLoggedIn,
                 loginOutcome, selectOutcome, chooserArg, chooserRet, authSub,
                 authRuns, stateSub, stateRuns>>
  /\ UNCHANGED <<sdkVars, clientVars, envVars, discVars, uiVarsButLogs>>

\* --------------------------------------------------------- disconnectAll
\* The App's disconnect button:
\* disabled={!connected && btState === BLUETOOTH_CONNECTION.DISCONNECTED}
DisconnectEnabled == ~(~connected /\ btState = BT_DISCONNECTED)

\* disconnectAll() up to its first await (bluetooth.disconnect()); by
\* handleDisconnect ("ui", after its addLog) or by a direct call ("api").
DisconnectCall(k, caller) ==
  /\ Free(discPc) # {}
  /\ k = FirstFree(discPc)
  /\ CallerAllowed(caller)
  /\ caller = "ui" => DisconnectEnabled
  /\ logs' = IF caller = "ui"
             THEN Append(logs, LogEntry("Disconnecting...", "info"))
             ELSE logs
  /\ LogRoom
  /\ discPc' = [discPc EXCEPT ![k] = "btDisconnect"]
  /\ discCaller' = [discCaller EXCEPT ![k] = caller]
  /\ discCalls' = [discCalls EXCEPT ![k] = << "bluetooth.disconnect" >>]
  /\ discBt' = [discBt EXCEPT ![k] = "pending"]
  /\ discClose' = [discClose EXCEPT ![k] = "none"]
  /\ discResult' = [discResult EXCEPT ![k] = "none"]
  /\ UNCHANGED <<sdkVars, clientVars, envVars, connVars, uiVarsButLogs>>

\* The promise of call k of disconnectAll() settles with result; the code
\* after `await disconnectAll()` in handleDisconnect runs in a later job.
DisconnectAllSettles(k, result) ==
  /\ discResult' = [discResult EXCEPT ![k] = result]
  /\ discPc' = [discPc EXCEPT ![k] = IF discCaller[k] = "ui" THEN "returned"
                                                          ELSE "settled"]

\* The promise of bluetooth.disconnect() settles ("ok" or an error); the
\* code after the await, or the catch block, runs in a later job.
BtDisconnectSettles(k, outcome) ==
  /\ discPc[k] = "btDisconnect"
  /\ discBt' = [discBt EXCEPT ![k] = outcome]
  /\ discPc' = [discPc EXCEPT ![k] = "btDisconnectSettled"]
  /\ UNCHANGED <<discCaller, discCalls, discClose, discResult>>
  /\ UNCHANGED <<sdkVars, clientVars, envVars, connVars, uiVars>>

\* A first catch block that gives up instead of going on to the session close.
AfterBtDisconnect_GiveUp(outcome) == IF outcome = "ok" THEN "sessionClose" ELSE "settled"

\* Where disconnectAll() goes once bluetooth.disconnect() settled.
AfterBtDisconnect(outcome) == "sessionClose"

\* The code after `await neurosity.bluetooth.disconnect()`, or its catch
\* block, which only warns: neurosity.disconnect() is called next.
DisconnectContinues(k) ==
  /\ discPc[k] = "btDisconnectSettled"
  /\ IF AfterBtDisconnect(discBt[k]) = "sessionClose"
     THEN /\ discCalls' = [discCalls EXCEPT ![k] = Append(@, "disconnect")]
          /\ discPc' = [discPc EXCEPT ![k] = "sessionClose"]
          /\ UNCHANGED discResult
     ELSE /\ DisconnectAllSettles(k, "ok")
          /\ UNCHANGED discCalls
  /\ UNCHANGED <<discCaller, discBt, discClose>>
  /\ UNCHANGED <<sdkVars, clientVars, envVars, connVars, uiVars>>

\* The promise of neurosity.disconnect() settles; the code after the await,
\* or the catch block, runs in a later job.
SessionCloseSettles(k, outcome) ==
  /\ discPc[k] = "sessionClose"
  /\ discClose' = [discClose EXCEPT ![k] = outcome]
  /\ discPc' = [discPc EXCEPT ![k] = "sessionCloseSettled"]
  /\ UNCHANGED <<discCaller, discCalls, discBt, discResult>>
  /\ UNCHANGED <<sdkVars, clientVars, envVars, connVars, uiVars>>

\* A second catch block that rethrows.
DisconnectResult_Rethrow(outcome) == outcome

\* What disconnectAll() settles with once neurosity.disconnect() settled.
DisconnectResult(outcome) == "ok"

\* A disconnectAll() that resets the wireless-phase container itself.
PhaseAfterDisconnectAll_Reset(c) == BT_DISCONNECTED

\* bluetoothConnection$ after disconnectAll(): the function never calls
\* next() on it.
PhaseAfterDisconnectAll(c) == c

\* The code after `await neurosity.disconnect()`, or its catch block, which
\* only warns; disconnectAll() returns.
DisconnectReturns(k) ==
  /\ discPc[k] = "sessionCloseSettled"
  /\ DisconnectAllSettles(k, DisconnectResult(discClose[k]))
  /\ bluetoothConnection' = PhaseAfterDisconnectAll(bluetoothConnection)
  /\ UNCHANGED <<discCaller, discCalls, discBt, discClose>>
  /\ UNCHANGED <<sdkVars, streamingState, envVars, connVars, uiVars>>

\* handleDisconnect after `await disconnectAll()`: the displayed device info
\* and reading are cleared and 'Disconnected' is logged; the catch block
\* logs a rejection.
HandleDisconnectContinues(k) ==
  /\ discPc[k] = "returned"
  /\ discPc' = [discPc EXCEPT ![k] = "settled"]
  /\ IF discResult[k] = "ok"
     THEN /\ deviceInfo' = NULL
          /\ powerByBand' = NULL
          /\ logs' = Append(logs, LogEntry("Disconnected", "success"))
     ELSE /\ logs' = Append(logs, LogEntry("Disconnect error: " \o discResult[k], "error"))
          /\ UNCHANGED <<deviceInfo, powerByBand>>
  /\ UNCHANGED <<discCaller, discCalls, discBt, discClose, discResult>>
  /\ UNCHANGED <<sdkVars, clientVars, envVars, connVars>>
  /\ UNCHANGED <<uiPhase, uiSubs, btState, activeMode, connected, infoFetchedRef,
                 metricsSubscribedRef, prevMode, sub4, openMetrics, infoFetch,
                 infoFetches, btRun, status, lastStatusTime, now>>

\* ------------------------------------------------------------ App: effect
\* The subscriptions the effect holds besides sub4.
EffectSubs == {"sub1", "sub2", "sub3", "sub5"}

\* useEffect(() => {...}, []) runs: every BehaviorSubject replays its
\* current value to the new subscriber during subscribe.
Mount ==
  /\ uiPhase = "initial"
  /\ uiPhase' = "mounted"
  /\ uiSubs' = EffectSubs
  /\ btState' = bluetoothConnection
  /\ StreamingObserved(streamingState,
                       << LogEntry("App initialized", "info") >>
                         \o Sub1Logs(bluetoothConnection),
                       EffectSubs)
  /\ LogRoom
  /\ RunRoom
  /\ lastStatusTime' = 0
  /\ UNCHANGED <<deviceInfo, status, now>>
  /\ UNCHANGED <<sdkVars, clientVars, envVars, connVars, discVars>>

\* A cleanup that leaves the metrics subscription open.
CleanupSub4_Leak(h) == h

\* if (sub4) sub4.unsubscribe()
CleanupSub4(h) == IF h # NULL THEN "unsubscribed" ELSE h

\* The cleanup of the effect.
Unmount ==
  /\ uiPhase = "mounted"
  /\ uiPhase' = "unmounted"
  /\ uiSubs' = {}
  /\ sub4' = CleanupSub4(sub4)
  /\ openMetrics' = IF sub4 = "open" /\ sub4' # "open" THEN openMetrics - 1
                                                        ELSE openMetrics
  /\ UNCHANGED <<btState, activeMode, connected, deviceInfo, powerByBand, logs,
                 infoFetchedRef, metricsSubscribedRef, prevMode, infoFetch, infoFetches, btRun,
                 status, lastStatusTime, now>>
  /\ UNCHANGED <<sdkVars, clientVars, envVars, connVars, discVars>>

\* neurosity.brainwaves('powerByBand') emits to the open subscription.
MetricsEmit(data) ==
  /\ sub4 = "open"
  /\ powerByBand # data
  /\ powerByBand' = data
  /\ UNCHANGED <<uiPhase, uiSubs, btState, activeMode, connected, deviceInfo, logs,
                 infoFetchedRef, metricsSubscribedRef, prevMode, sub4, openMetrics, infoFetch,
                 infoFetches, btRun, status, lastStatusTime, now>>
  /\ UNCHANGED <<sdkVars, clientVars, envVars, connVars, discVars>>

\* neurosity.bluetooth.getInfo() settles: .then stores and logs the info,
\* .catch logs the failure.
GetInfoSettles(outcome) ==
  /\ infoFetch = "pending"
  /\ infoFetch' = "settled"
  /\ IF outcome \in DeviceInfos
     THEN /\ deviceInfo' = outcome
          /\ logs' = Append(logs, LogEntry("Device info loaded: " \o outcome, "success"))
     ELSE /\ logs' = Append(logs, LogEntry("Failed to fetch Bluetooth device info: "
                                           \o outcome, "error"))
          /\ UNCHANGED deviceInfo
  /\ UNCHANGED <<uiPhase, uiSubs, btState, activeMode, connected, powerByBand,
                 infoFetchedRef, metricsSubscribedRef, prevMode, sub4, openMetrics, infoFetches,
                 btRun, status,
                 lastStatusTime, now>>
  /\ UNCHANGED <<sdkVars, clientVars, envVars, connVars, discVars>>

\* A throttle that only looks at the status.
ShouldLogStatus_Unthrottled(s) == s # NULL

\* if (s && Date.now() - lastStatusTime > 5000)
ShouldLogStatus(s) == s # NULL /\ now - lastStatusTime > StatusLogInterval

\* neurosity.status() emits s to sub3.
StatusEmit(s) ==
  /\ "sub3" \in uiSubs
  /\ status' = s
  /\ IF ShouldLogStatus(s)
     THEN /\ logs' = Append(logs, LogEntry("Status update: " \o s, "info"))
          /\ lastStatusTime' = now
     ELSE UNCHANGED <<logs, lastStatusTime>>
  /\ LogRoom
  /\ UNCHANGED <<uiPhase, uiSubs, btState, activeMode, connected, deviceInfo, powerByBand,
                 infoFetchedRef, metricsSubscribedRef, prevMode, sub4, openMetrics, infoFetch,
                 infoFetches, btRun, now>>
  /\ UNCHANGED <<sdkVars, clientVars, envVars, connVars, discVars>>

\* Time passes.
Tick(d) ==
  /\ now + d <= MaxNow
  /\ now' = now + d
  /\ UNCHANGED <<uiPhase, uiSubs, btState, activeMode, connected, deviceInfo, powerByBand,
                 logs, infoFetchedRef, metricsSubscribedRef, prevMode, sub4, openMetrics, infoFetch,
                 infoFetches, btRun, status, lastStatusTime>>
  /\ UNCHANGED <<sdkVars, clientVars, envVars, connVars, discVars>>

\* ------------------------------------------------------------------ Next
\* The streams of the SDK emit.
SdkEmits ==
  \/ \E s \in StreamingState : EmitStreamingState(s)
  \/ \E c \in BLUETOOTH_CONNECTION : EmitBluetoothConnection(c)

\* The cloud login helper of call k goes on.
CloudSteps(k) ==
  \/ \E user \in AuthUsers : AuthStateEmit(k, user)
  \/ AuthSourceTerminates(k)
  \/ AfterAuthRead(k)
  \/ \E outcome \in {"ok"} \cup Errors : LoginSettles(k, outcome)
  \/ AfterLogin(k)
  \/ \E devices \in DeviceLists : ChooserInvoked(k, devices)
  \/ \E outcome \in {"ok"} \cup Errors : SelectDeviceSettles(k, outcome)
  \/ AfterSelectDevice(k)

\* Call k of connectBluetooth() goes on: an SDK operation it awaits settles,
\* or the code behind a settled await runs.
ConnectSteps(k) ==
  \/ BtConnectResolve(k)
  \/ \E e \in Errors : BtConnectReject(k, e)
  \/ \E syncState, syncAuth \in BOOLEAN : ConnectContinues(k, syncState, syncAuth)
  \/ ConnectCatches(k)
  \/ ConnectReturns(k)
  \/ CloudSteps(k)

\* Call k of disconnectAll() goes on.
DisconnectSteps(k) ==
  \/ \E outcome \in {"ok"} \cup Errors : BtDisconnectSettles(k, outcome)
  \/ DisconnectContinues(k)
  \/ \E outcome \in {"ok"} \cup Errors : SessionCloseSettles(k, outcome)
  \/ DisconnectReturns(k)

\* The App's effect and what it subscribed to.
EffectSteps ==
  \/ Mount
  \/ Unmount
  \/ \E data \in PowerData : MetricsEmit(data)
  \/ \E outcome \in DeviceInfos \cup Errors : GetInfoSettles(outcome)

\* The device-status stream and the clock.
StatusSteps ==
  \/ \E s \in Statuses : StatusEmit(s)
  \/ \E d \in TickSteps : Tick(d)

\* The whole program.
Next ==
  \/ SdkEmits
  \/ StatusSteps
  \/ EffectSteps
  \/ \E k \in Calls :
       \/ \E caller \in {"api", "ui"} : ConnectCall(k, caller)
       \/ ConnectSteps(k)
       \/ HandleConnectContinues(k)
       \/ \E caller \in {"api", "ui"} : DisconnectCall(k, caller)
       \/ DisconnectSteps(k)
       \/ HandleDisconnectContinues(k)

Spec == Init /\ [][Next]_vars

\* The App without cloud credentials configured.
InitApp ==
  /\ Init
  /\ email = Undefined /\ password = Undefined /\ deviceId = Undefined

\* The email or the password is not configured.
InitLocal ==
  /\ Init
  /\ Falsy(email) \/ Falsy(password)
  /\ deviceId = Undefined

\* Cloud credentials and a target device configured.
InitCloud ==
  /\ Init
  /\ email = "me@x.io" /\ password = "pw" /\ deviceId = "d2"

\* The components share no variable but the log and the two containers, so
\* each is also explored on its own.

\* connectBluetooth() called by a consumer of the module, one call after
\* the other and under every configuration, with the streaming-state source
\* emitting.
NextConnect ==
  \/ \E s \in StreamingState : EmitStreamingState(s)
  \/ ConnectCall(1, "api")
  \/ ConnectSteps(1)

ConnectSpec == Init /\ [][NextConnect]_vars

\* connectBluetooth() called by a consumer of the module with no cloud
\* credentials configured; calls overlap.
NextLocalConnect ==
  \/ \E s \in StreamingState : EmitStreamingState(s)
  \/ \E k \in Calls :
       \/ ConnectCall(k, "api")
       \/ BtConnectResolve(k)
       \/ \E e \in Errors : BtConnectReject(k, e)
       \/ \E syncState, syncAuth \in BOOLEAN : ConnectContinues(k, syncState, syncAuth)
       \/ ConnectCatches(k)
       \/ ConnectReturns(k)

LocalConnectSpec == InitLocal /\ [][NextLocalConnect]_vars

\* connectBluetooth() called by a consumer of the module with cloud
\* credentials configured; calls overlap.
NextCloudConnect ==
  \E k \in Calls : ConnectCall(k, "api") \/ ConnectSteps(k)

CloudConnectSpec == InitCloud /\ [][NextCloudConnect]_vars

\* disconnectAll() called by a consumer of the module; calls overlap.
NextDisconnect ==
  \E k \in Calls : DisconnectCall(k, "api") \/ DisconnectSteps(k)

DisconnectSpec == Init /\ [][NextDisconnect]_vars

\* The App's effect over the two republished containers.
NextApp ==
  \/ SdkEmits
  \/ EffectSteps

AppSpec == InitApp /\ [][NextApp]_vars

\* The client module used by a consumer: both mirrors and both exported
\* operations, the cloud login helper included; one call of each operation
\* at a time.
NextClient ==
  \/ SdkEmits
  \/ ConnectCall(1, "api")
  \/ ConnectSteps(1)
  \/ DisconnectCall(1, "api")
  \/ DisconnectSteps(1)

ClientSpec == InitCloud /\ [][NextClient]_vars

\* The App's effect over the streaming-state container alone.
NextTransport ==
  \/ \E s \in StreamingState : EmitStreamingState(s)
  \/ EffectSteps

TransportSpec == InitApp /\ [][NextTransport]_vars

\* The mounted App and its connect button, no cloud credentials
\* configured: handleConnect runs while the streaming state changes.
NextUiConnect ==
  \/ \E s \in StreamingState : EmitStreamingState(s)
  \/ EffectSteps
  \/ \E k \in Calls :
       \/ ConnectCall(k, "ui")
       \/ BtConnectResolve(k)
       \/ \E e \in Errors : BtConnectReject(k, e)
       \/ \E syncState, syncAuth \in BOOLEAN : ConnectContinues(k, syncState, syncAuth)
       \/ ConnectCatches(k)
       \/ ConnectReturns(k)
       \/ HandleConnectContinues(k)

UiConnectSpec == InitApp /\ [][NextUiConnect]_vars

\* The mounted App and its disconnect button: handleDisconnect runs while
\* the streaming state changes.
NextUiDisconnect ==
  \/ \E s \in StreamingState : EmitStreamingState(s)
  \/ EffectSteps
  \/ \E k \in Calls :
       \/ DisconnectCall(k, "ui")
       \/ DisconnectSteps(k)
       \/ HandleDisconnectContinues(k)

UiDisconnectSpec == InitApp /\ [][NextUiDisconnect]_vars

\* The App's effect over the device-status stream as time passes.
NextStatus ==
  \/ Mount
  \/ Unmount
  \/ StatusSteps

StatusSpec == InitApp /\ [][NextStatus]_vars

\* Both operations called by a consumer of the module, one call of each
\* operation at a time.
NextSequencer ==
  \/ ConnectCall(1, "api")
  \/ ConnectSteps(1)
  \/ DisconnectCall(1, "api")
  \/ DisconnectSteps(1)

\* The session sequencer when every operation a call waits for settles in
\* the end (bluetooth.connect(), login(), selectDevice(),
\* bluetooth.disconnect() and disconnect() settle, and the auth-state stream
\* emits as long as it has not terminated) and every job queued behind a
\* settled promise runs.
FairSequencerSpec ==
  /\ Init
  /\ [][NextSequencer]_vars
  /\ \A k \in Calls :
       /\ WF_vars(BtConnectResolve(k))
       /\ WF_vars(\E syncState, syncAuth \in BOOLEAN : ConnectContinues(k, syncState, syncAuth))
       /\ WF_vars(ConnectCatches(k))
       /\ WF_vars(ConnectReturns(k))
       /\ WF_vars(\E user \in AuthUsers : AuthStateEmit(k, user))
       /\ WF_vars(AfterAuthRead(k))
       /\ WF_vars(\E outcome \in {"ok"} \cup Errors : LoginSettles(k, outcome))
       /\ WF_vars(AfterLogin(k))
       /\ WF_vars(\E outcome \in {"ok"} \cup Errors : SelectDeviceSettles(k, outcome))
       /\ WF_vars(AfterSelectDevice(k))
       /\ WF_vars(\E outcome \in {"ok"} \cup Errors : BtDisconnectSettles(k, outcome))
       /\ WF_vars(DisconnectContinues(k))
       /\ WF_vars(\E outcome \in {"ok"} \cup Errors : SessionCloseSettles(k, outcome))
       /\ WF_vars(DisconnectReturns(k))

\* ================================================================ claims
\* The cloud operations of the login helper, as recorded in connCalls.
CloudOps == {"onAuthStateChanged.subscribe", "login", "selectDevice"}

\* How often op occurs in calls.
Count(calls, op) == Cardinality({ i \in 1..Len(calls) : calls[i] = op })

\* The position of the first op in calls, 0 when there is none.
IndexOf(calls, op) ==
  IF Count(calls, op) = 0 THEN 0
  ELSE CHOOSE i \in 1..Len(calls) :
         calls[i] = op /\ \A j \in 1..Len(calls) : calls[j] = op => i <= j

\* An env setting that is unset or empty.
Absent(x) == x = Undefined \/ x = ""

\* C1: in every reachable state each republished container holds the value
\* its source emitted last, or its initial value when the source has not
\* emitted yet.
C1_ContainersHoldLastEmission ==
  /\ streamingState = IF sdkStreamingLast = None THEN InitialStreamingState
                      ELSE sdkStreamingLast[1]
  /\ bluetoothConnection = IF sdkBtLast = None THEN InitialBluetoothConnection
                           ELSE sdkBtLast[1]

\* C1 witness: both sources have emitted a value other than the initial one,
\* the streaming state with only its transport changed, while the App is
\* subscribed.
C1_Witness ==
  /\ uiPhase = "mounted"
  /\ sdkStreamingLast # None
  /\ sdkStreamingLast[1].activeMode = BLUETOOTH
  /\ ~sdkStreamingLast[1].connected
  /\ streamingState = sdkStreamingLast[1]
  /\ sdkBtLast = Some(BT_CONNECTED)
  /\ bluetoothConnection = BT_CONNECTED

\* The operations of call k, as recorded, hold no cloud operation.
NoCloudOps(k) == \A i \in 1..Len(connCalls[k]) : connCalls[k][i] \notin CloudOps

\* Call k of connectBluetooth() has returned to its caller.
ConnectOver(k) == connPc[k] \in {"returned", "settled"}

\* C2: when bluetooth.connect() rejected, connectBluetooth() does nothing
\* but reject, with that same error, and has invoked no auth-state read,
\* login or device selection; and a cloud operation is only ever invoked
\* after bluetooth.connect(), the first operation of the call, resolved.
C2_BtConnectFailureIsFatal ==
  \A k \in Calls :
    /\ connBt[k] \in Errors =>
         /\ connPc[k] = "btSettled" \/ ConnectOver(k)
         /\ ConnectOver(k) => connResult[k] = connBt[k]
         /\ NoCloudOps(k)
    /\ \A i \in 1..Len(connCalls[k]) :
         connCalls[k][i] \in CloudOps =>
           /\ connBt[k] = "ok"
           /\ i > 1
           /\ connCalls[k][1] = "bluetooth.connect"

\* C2 witness: with credentials configured, bluetooth.connect() rejected
\* with E2 and the call rejected with E2.
C2_Witness ==
  \E k \in Calls :
    /\ ~Absent(email) /\ ~Absent(password)
    /\ connBt[k] = "E2"
    /\ connResult[k] = "E2"
    /\ connPc[k] = "settled"

\* C3: with the email or the password absent, once bluetooth.connect() has
\* resolved the call only returns, it completes successfully, and it
\* invokes no auth-state read, login or device selection.
C3_NoCredentialsNoCloud ==
  \A k \in Calls :
    ((Absent(email) \/ Absent(password)) /\ connBt[k] = "ok") =>
       /\ connPc[k] \in {"btSettled", "returning"} \/ ConnectOver(k)
       /\ ConnectOver(k) => connResult[k] = "ok"
       /\ connResult[k] \in {"none", "ok"}
       /\ NoCloudOps(k)

\* C3 witness: only the password is missing, two calls were in flight
\* together, and the one made first completed after the one made second.
C3_Witness ==
  /\ ~Absent(email) /\ Absent(password)
  /\ connBt[1] = "ok" /\ connPc[1] = "returning"
  /\ connBt[2] = "ok" /\ connPc[2] = "settled" /\ connResult[2] = "ok"

\* C4: a connectBluetooth() that returned after its bluetooth.connect()
\* resolved has succeeded, whatever the auth-state read, login and device
\* selection did; a rejection is always the rejection of bluetooth.connect().
C4_OnlyBtConnectIsFatal ==
  \A k \in Calls :
    /\ (ConnectOver(k) /\ connBt[k] = "ok") => connResult[k] = "ok"
    /\ connResult[k] \in Errors => connBt[k] = connResult[k]
    /\ connResult[k] \in {"none", "ok"} \cup Errors

\* C4 witness: login and device selection both failed and the call succeeded.
C4_Witness ==
  \E k \in Calls :
    /\ connPc[k] = "settled"
    /\ alreadyLoggedIn[k] = Some(FALSE)
    /\ loginOutcome[k] \in Errors
    /\ selectOutcome[k] \in Errors
    /\ connResult[k] = "ok"

\* C5: every connectBluetooth() call and every disconnectAll() call settles
\* in the end, provided the operations it awaits settle.
C5_CallsEventuallySettle ==
  \A k \in Calls :
    /\ (connPc[k] = "btConnect") ~> (connPc[k] = "settled")
    /\ (discPc[k] = "btDisconnect") ~> (discPc[k] = "settled")

\* C6: disconnectAll() invokes neurosity.disconnect() exactly once per call,
\* in the code that runs once bluetooth.disconnect() has settled, resolved
\* or rejected, and never before; the call returns only once
\* neurosity.disconnect() settled.
C6_SessionCloseAlwaysInvoked ==
  \A k \in Calls :
    /\ Count(discCalls[k], "disconnect") <= 1
    /\ Count(discCalls[k], "disconnect") = 1 <=>
         discPc[k] \in {"sessionClose", "sessionCloseSettled", "returned", "settled"}
    /\ Count(discCalls[k], "disconnect") = 1 =>
         /\ discBt[k] \in {"ok"} \cup Errors
         /\ discCalls[k][1] = "bluetooth.disconnect"
         /\ IndexOf(discCalls[k], "disconnect") = 2
    /\ discPc[k] \in {"returned", "settled"} =>
         /\ discCalls[k] = << "bluetooth.disconnect", "disconnect" >>
         /\ discClose[k] \in {"ok"} \cup Errors

\* C6 witness: bluetooth.disconnect() rejected, neurosity.disconnect() was
\* invoked and resolved.
C6_Witness ==
  \E k \in Calls :
    /\ discPc[k] = "settled"
    /\ discBt[k] \in Errors
    /\ discClose[k] = "ok"
    /\ Count(discCalls[k], "disconnect") = 1

\* C7: a disconnectAll() that returned has succeeded, whatever its two
\* steps did.
C7_DisconnectNeverFails ==
  \A k \in Calls :
    /\ discPc[k] \in {"returned", "settled"} => discResult[k] = "ok"
    /\ discResult[k] \in {"none", "ok"}

\* C7 witness: both steps rejected and the call succeeded, while a second
\* call made before the first returned is still waiting.
C7_Witness ==
  /\ discPc[1] = "settled"
  /\ discBt[1] \in Errors
  /\ discClose[1] \in Errors
  /\ discResult[1] = "ok"
  /\ discPc[2] = "btDisconnect"

\* The chooser's verdict the spec asks for: a device of the list carrying
\* the target identifier when one exists, else the first device (none when
\* the list is empty).
Expected(id, devices, ret) ==
  IF ~Absent(id) /\ \E i \in 1..Len(devices) : devices[i].deviceId = id
  THEN /\ ret # None
       /\ ret[1].deviceId = id
       /\ \E i \in 1..Len(devices) : devices[i] = ret[1]
  ELSE ret = IF Len(devices) = 0 THEN None ELSE Some(devices[1])

\* C8: whenever the chooser ran it returned the device matching deviceId if
\* there is one and the first device otherwise, the first device also when
\* no deviceId is configured; and a call whose chooser ran and that has
\* returned has succeeded.
C8_ChooserPicksTargetOrFirst ==
  \A k \in Calls :
    chooserArg[k] # None =>
      /\ chooserRet[k] # None
      /\ Expected(deviceId, chooserArg[k][1], chooserRet[k][1])
      /\ ConnectOver(k) => connResult[k] = "ok"

\* C8 witness: the target d9 matches none of two devices, the chooser
\* returned the first and the call succeeded.
C8_Witness ==
  \E k \in Calls :
    /\ deviceId = "d9"
    /\ chooserArg[k] # None
    /\ Len(chooserArg[k][1]) = 2
    /\ chooserArg[k][1][1] # chooserArg[k][1][2]
    /\ chooserRet[k] = Some(Some(chooserArg[k][1][1]))
    /\ connPc[k] = "settled"
    /\ connResult[k] = "ok"

\* C9: with both credentials present, login() is invoked exactly when the
\* auth-state read reported not authenticated, in the code that runs behind
\* the read, at most once and before selectDevice(); selectDevice() is
\* invoked at most once, in the code that runs once login() settled (also
\* with an error) or was skipped, and exactly once when the call has
\* returned after bluetooth.connect() resolved.
C9_LoginThenSelectOnce ==
  \A k \in Calls :
    (~Absent(email) /\ ~Absent(password)) =>
      /\ Count(connCalls[k], "login") = 1 <=>
           (alreadyLoggedIn[k] = Some(FALSE) /\ connPc[k] # "authResolved")
      /\ Count(connCalls[k], "login") <= 1
      /\ Count(connCalls[k], "selectDevice") <= 1
      /\ (Count(connCalls[k], "login") = 1 /\ Count(connCalls[k], "selectDevice") = 1) =>
           IndexOf(connCalls[k], "login") < IndexOf(connCalls[k], "selectDevice")
      /\ Count(connCalls[k], "selectDevice") = 1 <=>
           /\ alreadyLoggedIn[k] = Some(TRUE) \/ loginOutcome[k] \in {"ok"} \cup Errors
           /\ connPc[k] \notin {"authResolved", "loginSettled"}
      /\ (ConnectOver(k) /\ connBt[k] = "ok") => Count(connCalls[k], "selectDevice") = 1

\* C9 witness: not authenticated, login() failed, selectDevice() was still
\* invoked, once, and the call has settled.
C9_Witness ==
  \E k \in Calls :
    /\ connPc[k] = "settled"
    /\ alreadyLoggedIn[k] = Some(FALSE)
    /\ loginOutcome[k] \in Errors
    /\ connCalls[k] = << "bluetooth.connect", "streamingState.subscribe",
                         "onAuthStateChanged.subscribe", "login", "selectDevice" >>

\* C10 as stated: while the App is mounted the metrics subscription is open
\* exactly when the last observed streaming state is connected over
\* Bluetooth.
C10_MetricsOpenIffBtAndConnected ==
  uiPhase = "mounted" =>
    (sub4 = "open" <=>
       (streamingState.activeMode = BLUETOOTH /\ streamingState.connected))

\* C10 amended: while the App is mounted the metrics subscription is open
\* exactly when the last observed streaming state has Bluetooth as its
\* active transport, connected or not.
C10_MetricsOpenIffBt ==
  uiPhase = "mounted" =>
    (sub4 = "open" <=> streamingState.activeMode = BLUETOOTH)

\* C10 witness: mounted, Bluetooth active but not connected, subscription
\* open and a reading received.
C10_Witness ==
  /\ uiPhase = "mounted"
  /\ streamingState.activeMode = BLUETOOTH
  /\ ~streamingState.connected
  /\ sub4 = "open"
  /\ powerByBand \in PowerData

\* Number of log lines with the given message.
CountLogs(message) ==
  Cardinality({ i \in 1..Len(logs) : logs[i].message = message })

\* C11: in a mounted session, a switch of the observed transport away from
\* Bluetooth unsubscribes the metrics subscription and clears the reading,
\* the reading stays null while the transport is not Bluetooth, and a switch
\* back to Bluetooth opens a new subscription.
C11_MetricsFollowTransport ==
  /\ [](uiPhase = "mounted" /\ activeMode # BLUETOOTH
          => sub4 = NULL /\ powerByBand = NULL)
  /\ [][uiPhase = "mounted" /\ uiPhase' = "mounted"
          /\ activeMode = BLUETOOTH /\ activeMode' # BLUETOOTH
        => sub4 = "open" /\ sub4' = NULL /\ powerByBand' = NULL]_vars
  /\ [][uiPhase = "mounted" /\ uiPhase' = "mounted"
          /\ activeMode # BLUETOOTH /\ activeMode' = BLUETOOTH
        => sub4 = NULL /\ sub4' = "open"]_vars

\* C11 witness: mounted, a reading was received, the transport went away
\* from Bluetooth and came back, and the second subscription is open.
C11_Witness ==
  /\ uiPhase = "mounted"
  /\ CountLogs("Transport changed: Wi-Fi") = 1
  /\ CountLogs("Subscribed to powerByBand (Bluetooth)") = 2
  /\ sub4 = "open"
  /\ powerByBand \in PowerData

\* C12: within one activation of Bluetooth (a run of observed emissions with
\* connected over Bluetooth) the device-info fetch is issued at most once:
\* one observation issues at most one fetch, and an observation that
\* continues a run issues none.
C12_OneFetchPerActivation ==
  /\ [][infoFetches' <= infoFetches + 1]_vars
  /\ [][btRun >= 1 /\ btRun' >= 1 => infoFetches' = infoFetches]_vars

\* C12 witness: two emissions in a row observed with connected over
\* Bluetooth, one fetch issued.
C12_Witness ==
  /\ uiPhase = "mounted"
  /\ btRun = 2
  /\ connected /\ activeMode = BLUETOOTH
  /\ infoFetches = 1

\* C13: in a mounted session whose observed transport has only gone from
\* Wi-Fi to Bluetooth, once connected over Bluetooth is observed there is
\* exactly one "Transport changed: Bluetooth" log line and exactly one
\* device-info fetch, whatever emissions led there.
C13_OneLogOneFetch ==
  ( /\ uiPhase = "mounted"
    /\ connected /\ activeMode = BLUETOOTH
    /\ CountLogs("Transport changed: Wi-Fi") = 0 )
  => /\ CountLogs("Transport changed: Bluetooth") = 1
     /\ infoFetches = 1

\* C13 witness: connected over Bluetooth observed for the second time in a
\* row, one log line, the one fetch still in flight.
C13_Witness ==
  /\ uiPhase = "mounted"
  /\ connected /\ activeMode = BLUETOOTH
  /\ btRun = 2
  /\ CountLogs("Transport changed: Wi-Fi") = 0
  /\ CountLogs("Transport changed: Bluetooth") = 1
  /\ infoFetches = 1 /\ infoFetch = "pending"

\* C14 as stated: no device-info fetch is started between the call of
\* connectBluetooth() and its completion.
C14_NoFetchDuringConnect ==
  [][(\E k \in Calls : connPc[k] # "idle" /\ ~ConnectOver(k))
       => infoFetches' = infoFetches]_vars

\* C15 as stated: each time the mounted App observes connected over
\* Bluetooth after an observation that was not, one device-info fetch is
\* issued for the new activation.
C15_FetchOnEveryActivation ==
  [][uiPhase' = "mounted" /\ btRun = 0 /\ btRun' = 1
     => infoFetches' = infoFetches + 1]_vars

\* C16 as stated: once connectBluetooth() has completed, the subscription it
\* opened on the streaming-state source and the one it opened on the
\* auth-state source are released, and each callback has run at most once.
C16_OneShotReadsReleased ==
  \A k \in Calls :
    (ConnectOver(k) /\ connBt[k] = "ok")
    => /\ stateSub[k] = "unsubscribed" /\ stateRuns[k] <= 1
       /\ authSub[k] \in {"none", "unsubscribed"} /\ authRuns[k] <= 1

\* C17: after the unmount none of the effect's subscriptions is active, the
\* metrics subscription included, and from then on none is opened and none
\* of their callbacks runs.
C17_UnmountReleasesAll ==
  /\ [](uiPhase = "unmounted" => uiSubs = {} /\ sub4 # "open")
  /\ [][uiPhase = "unmounted"
        => UNCHANGED <<uiSubs, sub4, btState, activeMode, connected, powerByBand>>]_vars

\* C17 witness: unmounted with the metrics subscription released, and both
\* containers have since received values the App did not observe.
C17_Witness ==
  /\ uiPhase = "unmounted"
  /\ sub4 = "unsubscribed"
  /\ streamingState.activeMode # activeMode
  /\ bluetoothConnection # btState

\* C18: the two containers are single-writer: whenever the value of
\* streamingState$ or of bluetoothConnection$ changes, the step is an
\* emission of the mirrored stream and the new value is the emitted one; no
\* step of connectBluetooth(), disconnectAll() or the cloud login helper
\* changes them.
C18_ContainersSingleWriter ==
  [][ /\ streamingState' # streamingState
         => /\ sdkStreamingLast' # sdkStreamingLast
            /\ sdkStreamingLast' = Some(streamingState')
      /\ bluetoothConnection' # bluetoothConnection
         => /\ sdkBtLast' # sdkBtLast
            /\ sdkBtLast' = Some(bluetoothConnection') ]_vars

\* C18 witness: connectBluetooth() went through login and device selection
\* and disconnectAll() closed the session, and the containers hold the
\* connected values their sources emitted.
C18_Witness ==
  /\ connPc[1] = "settled" /\ connResult[1] = "ok" /\ selectOutcome[1] = "ok"
  /\ discPc[1] = "settled" /\ discClose[1] = "ok"
  /\ sdkStreamingLast # None /\ sdkBtLast # None
  /\ streamingState.connected /\ streamingState.activeMode = BLUETOOTH
  /\ bluetoothConnection = BT_CONNECTED

\* The positions of the "Status update" lines in the log.
StatusLines ==
  { i \in 1..Len(logs) :
      \E s \in Statuses \ {NULL} : logs[i].message = "Status update: " \o s }

\* No status line yet, or the last one is more than the interval old.
StatusLogDue ==
  \A i \in StatusLines : now - logs[i].timestamp > StatusLogInterval

\* C19: any two status log lines are more than 5000 ms apart; an observed
\* status emission appends a line exactly when the status is non-null and no
\* earlier status line is 5000 ms old or younger (so the first non-null
\* status is logged), and the displayed status is the emitted one whether a
\* line was appended or not.
C19_StatusLogThrottled ==
  /\ [](\A i, j \in StatusLines :
          i < j => logs[j].timestamp - logs[i].timestamp > StatusLogInterval)
  /\ [][status' # status
        => IF status' # NULL /\ StatusLogDue
           THEN logs' = Append(logs, [timestamp |-> now,
                                      message |-> "Status update: " \o status',
                                      type |-> "info"])
           ELSE logs' = logs]_vars
  /\ [][logs' # logs /\ status' = status /\ uiPhase = "mounted"
        => /\ status # NULL /\ StatusLogDue
           /\ logs' = Append(logs, [timestamp |-> now,
                                    message |-> "Status update: " \o status,
                                    type |-> "info"])]_vars

\* C19 witness: two status lines exactly 5001 ms apart, and a later status
\* shown without a line of its own.
C19_Witness ==
  /\ uiPhase = "mounted"
  /\ \E i, j \in StatusLines :
       /\ i < j
       /\ logs[j].timestamp - logs[i].timestamp = StatusLogInterval + 1
       /\ j = Len(logs)
       /\ logs[j].message = "Status update: online"
  /\ status = "offline"
  /\ now - logs[Len(logs)].timestamp = StatusLogInterval

\* Number of "Transport changed" lines in the log.
TransportLines ==
  CountLogs("Transport changed: Bluetooth") + CountLogs("Transport changed: Wi-Fi")

\* C20: a "Transport changed" line is appended exactly when the mounted App
\* observes an active transport different from the one observed before
\* (Wi-Fi at the start), and the line names the new transport.
C20_TransportLogOnChange ==
  [][uiPhase' = "mounted"
     => /\ TransportLines' - TransportLines = IF activeMode' # activeMode THEN 1 ELSE 0
        /\ CountLogs("Transport changed: Bluetooth")'
             - CountLogs("Transport changed: Bluetooth")
           = IF activeMode' # activeMode /\ activeMode' = BLUETOOTH THEN 1 ELSE 0]_vars

\* C20 witness: the transport changed three times, three lines, and the last
\* emission repeated the transport of the one before it.
C20_Witness ==
  /\ uiPhase = "mounted"
  /\ CountLogs("Transport changed: Bluetooth") = 2
  /\ CountLogs("Transport changed: Wi-Fi") = 1
  /\ activeMode = BLUETOOTH
  /\ btRun = 2

\* C21: at most one metrics subscription is open at any time, repeated
\* emissions with Bluetooth active open no second one, and the subscribed
\* flag is true exactly when a subscription handle is held.
C21_OneMetricsSubscription ==
  /\ openMetrics <= 1
  /\ metricsSubscribedRef <=> sub4 # NULL

\* C21 witness: two emissions in a row observed with Bluetooth active while
\* the subscription is open, a reading received, one subscription open.
C21_Witness ==
  /\ uiPhase = "mounted"
  /\ btRun = 2
  /\ sub4 = "open" /\ metricsSubscribedRef
  /\ openMetrics = 1
  /\ powerByBand \in PowerData

\* C22: a run of handleDisconnect always ends on its success path: the code
\* behind `await disconnectAll()` clears the device info and the reading
\* and appends a "Disconnected" success line, whatever the two steps
\* settled with, and no "Disconnect error" line is ever in the log.
C22_UiDisconnectSucceeds ==
  /\ [](\A i \in 1..Len(logs) :
          \A e \in Errors : logs[i].message # "Disconnect error: " \o e)
  /\ [][\A k \in Calls :
          (discPc[k] = "returned" /\ discPc'[k] = "settled")
          => /\ discCaller[k] = "ui"
             /\ deviceInfo' = NULL
             /\ powerByBand' = NULL
             /\ logs' = Append(logs, [timestamp |-> now, message |-> "Disconnected",
                                      type |-> "success"])]_vars

\* C22 witness: device info was loaded and the metrics subscription is
\* open, the user disconnected, both steps failed, and the run ended with
\* "Disconnected", no device info and no reading.
C22_Witness ==
  \E k \in Calls :
    /\ discCaller[k] = "ui" /\ discPc[k] = "settled"
    /\ discBt[k] \in Errors /\ discClose[k] \in Errors
    /\ CountLogs("Device info loaded: info") = 1
    /\ logs[Len(logs)].message = "Disconnected"
    /\ deviceInfo = NULL /\ powerByBand = NULL
    /\ sub4 = "open"

====
